---------------------------- MODULE Spec2Model ----------------------------
(***************************************************************************)
(* bcrypt_pbkdf of rust-crypto (src/src/bcrypt_pbkdf.rs): the driver       *)
(* bcrypt_pbkdf and the primitive bcrypt_hash, as a state machine.         *)
(*                                                                         *)
(* Buffers are sequences of bytes (0..255); Rust's 0-based index i is      *)
(* position i + 1.  A u32 word is kept as its four base-256 digits, most   *)
(* significant first, because TLC's integers are 32-bit signed.            *)
(*                                                                         *)
(* Sha512 (sha2.rs), Blowfish (blowfish.rs) and the byte-order helpers     *)
(* (cryptoutil.rs) are other modules of the crate, which bcrypt_pbkdf.rs   *)
(* only calls.  They are modelled from their contracts: the digest context *)
(* is the byte string it has absorbed, and the digest function, the key    *)
(* expansions and the block encryption are fixed deterministic stand-in    *)
(* functions that depend on every byte and on the order of application.    *)
(* What the model decides is therefore the control flow, the data flow and *)
(* the buffer layout of bcrypt_pbkdf.rs, not the values of SHA-512 or      *)
(* Blowfish.                                                               *)
(***************************************************************************)
EXTENDS Integers, Sequences, FiniteSets, TLC

(* ------------------------------ bounds -------------------------------- *)

\* Output lengths 0..MaxLen are explored, besides the two lengths around
\* MaxOutputLen.
MaxLen == 34

\* rounds ranges over 0..MaxRounds.
MaxRounds == 3

\* bcrypt_hash calls made in one behaviour of the primitive on its own.
MaxCalls == 2

(* -------------------------- program constants ------------------------- *)

\* out.len(): the bytes one bcrypt_hash call produces ([u8; 32]).
OutLen == 32

\* [0u8; 64]: the width of hpass and hsalt.
DigestLen == 64

\* assert!(output.len() <= 1024), the documented largest output.
MaxOutputLen == 1024

\* for _ in 0..64 { expand_key(hsalt); expand_key(hpass) }
ExpandRepeats == 64

\* for _ in 0..64 { bf.encrypt(..) } for each pair of words
EncryptRepeats == 64

\* let mut buf = [0u32; 8]
BufWords == 8

(* ------------------------------ inputs -------------------------------- *)

Passwords == {<< >>, <<112, 119>>}

Salts == {<< >>, <<115>>}

\* What the caller's buffer holds, in every byte, when it is passed in.
Fills == {0, 170}

Lengths == (0..MaxLen) \cup {MaxOutputLen, MaxOutputLen + 1}

\* A sequence given by a rule, written out element by element: the same
\* sequence, which TLC then holds as a tuple of values.
Bytes(f) == f \o << >>

\* F(x), with x evaluated once, before F is applied.
With(x, F(_)) == CHOOSE y \in {F(v) : v \in {x}} : TRUE

\* A loop of n iterations with body F, entered with x: F applied n times.
\* (The iterations are grouped in halves and each half's result is bound
\* before the other starts, which keeps TLC's evaluation shallow.)
RECURSIVE Iterate(_, _, _)
Iterate(F(_), x, n) ==
    IF n = 0 THEN x
    ELSE IF n = 1 THEN F(x)
    ELSE With(Iterate(F, x, n \div 2), LAMBDA mid : Iterate(F, mid, n - (n \div 2)))

\* A buffer of len bytes, each holding f.
Filled(len, f) == Bytes([k \in 1..len |-> f])

(* --------------------------- byte helpers ----------------------------- *)

RECURSIVE XorBits(_, _, _)
XorBits(a, b, n) ==
    IF n = 0 THEN 0
    ELSE (((a % 2) + (b % 2)) % 2) + 2 * XorBits(a \div 2, b \div 2, n - 1)

\* u8 ^ u8
XorByte(a, b) == XorBits(a, b, 8)

\* write_u32_be(&mut count, v)
write_u32_be(v) ==
    << (v \div 16777216) % 256, (v \div 65536) % 256, (v \div 256) % 256, v % 256 >>

\* read_u32v_be(&mut buf, bytes): word w is bytes 4w .. 4w+3, big-endian.
read_u32v_be(bytes) ==
    Bytes([w \in 1..(Len(bytes) \div 4) |->
             << bytes[4 * w - 3], bytes[4 * w - 2], bytes[4 * w - 1], bytes[4 * w] >>])

\* write_u32_le(&mut output[i*4..(i+1)*4], word): least significant first.
write_u32_le(word) == << word[4], word[3], word[2], word[1] >>

\* b"OxychromaticBlowfishSwatDynamite"
Magic ==
    << 79, 120, 121, 99, 104, 114, 111, 109, 97, 116, 105, 99,
       66, 108, 111, 119, 102, 105, 115, 104,
       83, 119, 97, 116,
       68, 121, 110, 97, 109, 105, 116, 101 >>

(* ----------------------- digest collaborator -------------------------- *)

MixMod == 65521

\* One byte absorbed: st is <<accumulator, position of the next byte>>.
MixStep(st, bytes) == << (st[1] * 131 + bytes[st[2]] + 1) % MixMod, st[2] + 1 >>

Mix(bytes) == Iterate(LAMBDA st : MixStep(st, bytes), << 7, 1 >>, Len(bytes))[1]

\* The 64-byte digest of a message.
DigestOf(msg) ==
    With(Mix(msg),
         LAMBDA m : Bytes([j \in 1..DigestLen |->
                             (((m + 1) * (2 * j + 1) + j * j) \div 7) % 256]))

\* Sha512::new(): nothing absorbed.
ShaNew == << >>

\* Digest::reset(): what was absorbed is dropped.
ShaReset(ctx) == << >>

\* Digest::input(bytes): the context absorbs bytes after what it holds.
ShaInput(ctx, bytes) == ctx \o bytes

\* Digest::result(&mut out): the digest of what the context absorbed.
ShaResult(ctx) == DigestOf(ctx)

(* ----------------------- cipher collaborator -------------------------- *)

\* Blowfish::init_state(): the default constants.
init_state == 9279

\* bf.salted_expand_key(salt, key)
salted_expand_key(bf, salt, key) ==
    (bf * 37 + 3 * Mix(salt) + Mix(key) + 2) % MixMod

\* bf.expand_key(key): the key byte the state selects is folded in.
expand_key(bf, key) ==
    (bf * 33 + (IF key = << >> THEN 0 ELSE key[(bf % Len(key)) + 1]) + 1) % MixMod

\* bf.encrypt(l, r) -> (l, r)
encrypt(bf, l, r) ==
    << << (r[1] + 3 * l[1] + bf + 1) % 256, (r[2] + 3 * l[2] + bf + 2) % 256,
          (r[3] + 3 * l[3] + bf + 3) % 256, (r[4] + 3 * l[4] + bf + 4) % 256 >>,
       << (l[4] + (bf \div 256) + 1) % 256, (l[3] + (bf \div 256) + 4) % 256,
          (l[2] + (bf \div 256) + 9) % 256, (l[1] + (bf \div 256) + 16) % 256 >> >>

(* --------------------------- bcrypt_hash ------------------------------ *)

\* Line 14: let mut bf = Blowfish::init_state().  The argument is the cipher
\* state an earlier call left behind.
FreshStateMutant(left) == left

FreshState(left) == init_state

\* Lines 14-15: the new state after the one salted key expansion.
HashInitState(left, hpass, hsalt) == salted_expand_key(FreshState(left), hsalt, hpass)

\* Line 18 and line 19: the key of the first and of the second expansion of
\* one iteration.
ExpandFirstMutant(hpass, hsalt) == hpass

ExpandFirst(hpass, hsalt) == hsalt

ExpandSecond(hpass, hsalt) == hpass

\* Lines 18-19: one iteration of the expensive key schedule.
ExpandPair(bf, hpass, hsalt) ==
    expand_key(expand_key(bf, ExpandFirst(hpass, hsalt)), ExpandSecond(hpass, hsalt))

\* Lines 17-20: for _ in 0..64 { .. }, n iterations.
ExpandLoop(bf, hpass, hsalt, n) ==
    Iterate(LAMBDA s : ExpandPair(s, hpass, hsalt), bf, n)

\* The cipher state when the first encryption starts.
KeyedState(left, hpass, hsalt) ==
    ExpandLoop(HashInitState(left, hpass, hsalt), hpass, hsalt, ExpandRepeats)

\* Lines 27-29: buf[i], buf[i+1] replaced by their encryption (i is 0-based).
EncryptStep(bf, buf, i) ==
    With(encrypt(bf, buf[i + 1], buf[i + 2]),
         LAMBDA lr : [buf EXCEPT ![i + 1] = lr[1], ![i + 2] = lr[2]])

\* Lines 26-30: for _ in 0..64 { .. }, n iterations.
EncryptLoop(bf, buf, i, n) ==
    Iterate(LAMBDA w : EncryptStep(bf, w, i), buf, n)

\* Lines 25-31: for i in (0..8).step_up(2) { .. }; st is <<buf, i>>.
EncryptPair(bf, st) == << EncryptLoop(bf, st[1], st[2], EncryptRepeats), st[2] + 2 >>

EncryptPairs(bf, buf) ==
    Iterate(LAMBDA st : EncryptPair(bf, st), << buf, 0 >>, BufWords \div 2)[1]

\* Lines 33-35: the words written little-endian, in order.
WriteWords(buf) ==
    With(buf, LAMBDA w : Bytes([k \in 1..(4 * Len(w)) |->
                                  write_u32_le(w[((k - 1) \div 4) + 1])[((k - 1) % 4) + 1]]))

\* Lines 13-36, run after a call that left the cipher state left:
\* << the 32 bytes written to output, the cipher state of this call >>.
HashRun(left, hpass, hsalt) ==
    With(KeyedState(left, hpass, hsalt),
         LAMBDA keyed : << WriteWords(EncryptPairs(keyed, read_u32v_be(Magic))), keyed >>)

\* bcrypt_hash(hpass, hsalt, &mut output), as the value left in output.
bcrypt_hash(hpass, hsalt) == HashRun(init_state, hpass, hsalt)[1]

(* ---------------------------- bcrypt_pbkdf ---------------------------- *)

\* Line 47: let nblocks = (output.len() + 31) / 32
NBlocksMutant(len) == len \div OutLen

NBlocks(len) == (len + 31) \div OutLen

\* Line 53: for block in 1..(nblocks + 1), with the loop variable at b.
BlocksLeftMutant(b, nb) == b < nb

BlocksLeft(b, nb) == b < nb + 1

\* Line 67: for _ in 1..rounds, with the loop variable at round.
RoundsLeftMutant(rnd, r) == rnd <= r

RoundsLeft(rnd, r) == rnd < r

\* Line 69: what the digest of a strengthening round absorbs.
RoundSaltInputMutant(acc, last) == acc

RoundSaltInput(acc, last) == last

\* Lines 73-75: out[i] ^= tmp[i]
XorFold(acc, last) == Bytes([k \in 1..OutLen |-> XorByte(acc[k], last[k])])

\* Line 78: let idx = i * nblocks + (block - 1)
ScatterIdxMutant(i, nb, b) == i + (b - 1) * OutLen

ScatterIdx(i, nb, b) == i * nb + (b - 1)

\* Line 79: if idx < output.len()
InBounds(idx, len) == idx < len

\* Lines 77-82: the offsets one scatter writes.
ScatterOffsets(len, nb, b) ==
    {ScatterIdx(i, nb, b) : i \in {j \in 0..(OutLen - 1) : InBounds(ScatterIdx(j, nb, b), len)}}

\* Lines 78-81: the body of the scatter loop; st is <<output, i>>.
ScatterStep(st, acc, nb, b) ==
    LET idx == ScatterIdx(st[2], nb, b)
    IN  << IF InBounds(idx, Len(st[1]))
              THEN [st[1] EXCEPT ![idx + 1] = acc[st[2] + 1]]
              ELSE st[1],
           st[2] + 1 >>

\* Lines 77-82: for i in 0..out.len() { .. }
Scatter(buffer, acc, nb, b) ==
    Iterate(LAMBDA st : ScatterStep(st, acc, nb, b), << buffer, 0 >>, OutLen)[1]

VARIABLES
    pc,          \* where bcrypt_pbkdf is: idle, blocks, rounds, done
    ret,         \* what the call returned: none (not yet), unit
    password, salt, rounds, output,   \* the arguments
    hpass, hsalt, out, tmp,           \* the locals of bcrypt_pbkdf
    h,           \* the Sha512 context: the bytes absorbed since new or reset
    nblocks, block, round,            \* nblocks and the two loop variables
    bf,          \* the cipher state of the latest bcrypt_hash call
    calls,       \* calls of bcrypt_pbkdf started so far
    output0,     \* history: the buffer as passed in
    prevOutput,  \* history: the buffer the previous call left (NoOutput: none)
    written,     \* history: the offsets written by this call
    nPassDigest, \* history: digests taken of the password in this call
    nDigest,     \* history: digests taken in this call
    nHash,       \* history: bcrypt_hash calls made in this call
    passArgs,    \* history: the values passed as hpass to bcrypt_hash in this call
    lastRun,     \* history: << hpass, hsalt, output, cipher state >> of the latest bcrypt_hash call
    hashOuts,    \* history: per block, the 32 bytes each bcrypt_hash call produced
    saltIn,      \* history: per block, the bytes each salt digest absorbed
    bodyRuns,    \* history: per block, the executions of the round loop's body
    hpc,         \* where bcrypt_hash is, run on its own: idle, expand_first,
                 \* expand_second, encrypt, done
    hin,         \* its arguments << hpass, hsalt >>
    buf,         \* its local buf
    hk, hi, hj,  \* its loop variables: key schedule, word pair, encryption
    hout,        \* what it wrote to output
    hcalls,      \* its calls started so far
    hops         \* history: the cipher operations of this call, in order

driverVars ==
    << pc, ret, password, salt, rounds, output, hpass, hsalt, out, tmp, h,
       nblocks, block, round, calls, output0, prevOutput, written,
       nPassDigest, nDigest, nHash, passArgs, lastRun, hashOuts, saltIn, bodyRuns >>

hashVars == << hpc, hin, buf, hk, hi, hj, hout, hcalls, hops >>

vars == << driverVars, bf, hashVars >>

NoOutput == << -1 >>

NoRun == << << >>, << >>, << >>, -1 >>

Init ==
    /\ pc = "idle" /\ ret = "none"
    /\ password = << >> /\ salt = << >> /\ rounds = 0 /\ output = << >>
    /\ hpass = << >> /\ hsalt = << >> /\ out = << >> /\ tmp = << >>
    /\ h = << >>
    /\ nblocks = 0 /\ block = 0 /\ round = 0
    /\ bf = init_state
    /\ calls = 0
    /\ output0 = << >> /\ prevOutput = NoOutput
    /\ written = {}
    /\ nPassDigest = 0 /\ nDigest = 0 /\ nHash = 0
    /\ passArgs = {} /\ lastRun = NoRun
    /\ hashOuts = << >> /\ saltIn = << >> /\ bodyRuns = << >>
    /\ hpc = "idle"
    /\ hin = << << >>, << >> >>
    /\ buf = << >>
    /\ hk = 0 /\ hi = 0 /\ hj = 0
    /\ hout = << >>
    /\ hcalls = 0
    /\ hops = << >>

\* Lines 38-51, entered with the given arguments: hpass zeroed, nblocks
\* computed, the password digested with a new context.  The commented-out
\* assertions of lines 41-45 check nothing.
Enter(p, s, r, buffer) ==
    /\ password' = p /\ salt' = s /\ rounds' = r
    /\ output' = buffer /\ output0' = buffer
    /\ nblocks' = NBlocks(Len(buffer))
    /\ \E ctx \in {ShaInput(ShaNew, p)} :
          /\ h' = ctx
          /\ hpass' = ShaResult(ctx)
    /\ nPassDigest' = 1 /\ nDigest' = 1 /\ nHash' = 0
    /\ passArgs' = {} /\ lastRun' = NoRun
    /\ block' = 1 /\ round' = 0
    /\ written' = {}
    /\ hashOuts' = << >> /\ saltIn' = << >> /\ bodyRuns' = << >>
    /\ calls' = calls + 1
    /\ pc' = "blocks" /\ ret' = "none"
    /\ UNCHANGED << hsalt, out, tmp, bf, hashVars >>

\* A first call of bcrypt_pbkdf(password, salt, rounds, output).
Call ==
    /\ pc = "idle"
    /\ \E p \in Passwords, s \in Salts, r \in 0..MaxRounds, len \in Lengths, f \in Fills :
          Enter(p, s, r, Filled(len, f))
    /\ prevOutput' = NoOutput

\* The caller repeats its first call with the same arguments on another buffer.
Again ==
    /\ pc = "done"
    /\ calls = 1
    /\ \E f \in Fills : Enter(password, salt, rounds, Filled(Len(output), f))
    /\ prevOutput' = output

\* Lines 53-65: the head of the block loop's body.
BlockStart ==
    /\ pc = "blocks"
    /\ BlocksLeft(block, nblocks)
    /\ \E ctx \in {ShaInput(ShaInput(ShaReset(h), salt), write_u32_be(block))} :
       \E digest \in {ShaResult(ctx)} :
       \E run \in {HashRun(bf, hpass, digest)} :
           /\ h' = ctx
           /\ hsalt' = digest
           /\ out' = run[1]
           /\ tmp' = run[1]
           /\ bf' = run[2]
           /\ lastRun' = << hpass, digest, run[1], run[2] >>
           /\ hashOuts' = Append(hashOuts, << run[1] >>)
           /\ saltIn' = Append(saltIn, << ctx >>)
    /\ passArgs' = passArgs \cup {hpass}
    /\ bodyRuns' = Append(bodyRuns, 0)
    /\ nDigest' = nDigest + 1
    /\ nHash' = nHash + 1
    /\ round' = 1
    /\ pc' = "rounds"
    /\ UNCHANGED << ret, password, salt, rounds, output, hpass, nblocks, block, calls,
                    output0, prevOutput, written, nPassDigest, hashVars >>

\* Lines 67-83: one execution of the round loop's body.
Round ==
    /\ pc = "rounds"
    /\ RoundsLeft(round, rounds)
    /\ \E ctx \in {ShaInput(ShaReset(h), RoundSaltInput(out, tmp))} :
       \E digest \in {ShaResult(ctx)} :
       \E run \in {HashRun(bf, hpass, digest)} :
       \E acc \in {XorFold(out, run[1])} :
           /\ h' = ctx
           /\ hsalt' = digest
           /\ tmp' = run[1]
           /\ out' = acc
           /\ bf' = run[2]
           /\ output' = Scatter(output, acc, nblocks, block)
           /\ lastRun' = << hpass, digest, run[1], run[2] >>
           /\ hashOuts' = [hashOuts EXCEPT ![block] = Append(@, run[1])]
           /\ saltIn' = [saltIn EXCEPT ![block] = Append(@, ctx)]
    /\ passArgs' = passArgs \cup {hpass}
    /\ written' = written \cup ScatterOffsets(Len(output), nblocks, block)
    /\ bodyRuns' = [bodyRuns EXCEPT ![block] = @ + 1]
    /\ nDigest' = nDigest + 1
    /\ nHash' = nHash + 1
    /\ round' = round + 1
    /\ UNCHANGED << pc, ret, password, salt, rounds, hpass, nblocks, block, calls,
                    output0, prevOutput, nPassDigest, hashVars >>

\* Lines 83-84: the round loop is over; on to the next block.
BlockEnd ==
    /\ pc = "rounds"
    /\ ~RoundsLeft(round, rounds)
    /\ block' = block + 1
    /\ pc' = "blocks"
    /\ UNCHANGED << ret, password, salt, rounds, output, hpass, hsalt, out, tmp, h,
                    nblocks, round, bf, calls, output0, prevOutput, written,
                    nPassDigest, nDigest, nHash, passArgs, lastRun, hashOuts,
                    saltIn, bodyRuns, hashVars >>

\* Line 85: the block loop is over; bcrypt_pbkdf returns ().  The locals go
\* out of scope as they are: no statement overwrites them.
Return ==
    /\ pc = "blocks"
    /\ ~BlocksLeft(block, nblocks)
    /\ pc' = "done" /\ ret' = "unit"
    /\ UNCHANGED << password, salt, rounds, output, hpass, hsalt, out, tmp, h,
                    nblocks, block, round, bf, calls, output0, prevOutput, written,
                    nPassDigest, nDigest, nHash, passArgs, lastRun, hashOuts,
                    saltIn, bodyRuns, hashVars >>

Running == BlockStart \/ Round \/ BlockEnd \/ Return

Next == Call \/ Again \/ BlockStart \/ Round \/ BlockEnd \/ Return

Spec == Init /\ [][Next]_vars

\* One call on a zeroed buffer of a short length, for the behaviours that
\* are followed to their end.
LiveLengths == 0..MaxLen

CallZeroed ==
    /\ pc = "idle"
    /\ \E p \in Passwords, s \in Salts, r \in 0..MaxRounds, len \in LiveLengths :
          Enter(p, s, r, Filled(len, 0))
    /\ prevOutput' = NoOutput

NextLive == CallZeroed \/ BlockStart \/ Round \/ BlockEnd \/ Return

\* bcrypt_pbkdf has no suspension point: a call that has started keeps
\* executing until it returns.
FairSpec == Init /\ [][NextLive]_vars /\ WF_vars(Running)

(* ------------------ bcrypt_hash, one step at a time ------------------- *)

\* The 64-byte arguments the primitive is run with.
HashPasses == {DigestOf(p) : p \in Passwords}

HashSalts == {DigestOf(s \o write_u32_be(1)) : s \in Salts}

\* How the history names a key expansion: by the argument that is its key.
KeyName(key) ==
    IF key = hin[2] THEN "expand_key(hsalt)"
    ELSE IF key = hin[1] THEN "expand_key(hpass)"
    ELSE "expand_key(other)"

\* Lines 13-15: bcrypt_hash is entered; the state is made and salted.
HashCall ==
    /\ hpc \in {"idle", "done"}
    /\ hcalls < MaxCalls
    /\ \E hp \in HashPasses, hs \in HashSalts :
          /\ hin' = << hp, hs >>
          /\ bf' = HashInitState(bf, hp, hs)
    /\ hops' = << IF FreshState(bf) = init_state THEN "init_state" ELSE "stale_state",
                  "salted_expand_key(hsalt, hpass)" >>
    /\ buf' = << >> /\ hout' = << >>
    /\ hk' = 0 /\ hi' = 0 /\ hj' = 0
    /\ hcalls' = hcalls + 1
    /\ hpc' = "expand_first"
    /\ UNCHANGED driverVars

\* Line 18: the first key expansion of an iteration.
HashExpandFirst ==
    /\ hpc = "expand_first"
    /\ hk < ExpandRepeats
    /\ bf' = expand_key(bf, ExpandFirst(hin[1], hin[2]))
    /\ hops' = Append(hops, KeyName(ExpandFirst(hin[1], hin[2])))
    /\ hpc' = "expand_second"
    /\ UNCHANGED << driverVars, hin, buf, hk, hi, hj, hout, hcalls >>

\* Line 19: the second key expansion; the iteration is over.
HashExpandSecond ==
    /\ hpc = "expand_second"
    /\ bf' = expand_key(bf, ExpandSecond(hin[1], hin[2]))
    /\ hops' = Append(hops, KeyName(ExpandSecond(hin[1], hin[2])))
    /\ hk' = hk + 1
    /\ hpc' = "expand_first"
    /\ UNCHANGED << driverVars, hin, buf, hi, hj, hout, hcalls >>

\* Lines 22-23: the key schedule is over; buf is loaded with the constant.
HashLoadMagic ==
    /\ hpc = "expand_first"
    /\ ~(hk < ExpandRepeats)
    /\ buf' = read_u32v_be(Magic)
    /\ hi' = 0 /\ hj' = 0
    /\ hpc' = "encrypt"
    /\ UNCHANGED << driverVars, bf, hin, hk, hout, hcalls, hops >>

\* Lines 27-29: one encryption of the pair buf[i], buf[i+1].
HashEncrypt ==
    /\ hpc = "encrypt"
    /\ hi < BufWords
    /\ hj < EncryptRepeats
    /\ buf' = EncryptStep(bf, buf, hi)
    /\ hops' = Append(hops, "encrypt")
    /\ hj' = hj + 1
    /\ UNCHANGED << driverVars, bf, hpc, hin, hk, hi, hout, hcalls >>

\* Line 25: the pair is done; step_up(2) to the next.
HashNextPair ==
    /\ hpc = "encrypt"
    /\ hi < BufWords
    /\ ~(hj < EncryptRepeats)
    /\ hi' = hi + 2
    /\ hj' = 0
    /\ UNCHANGED << driverVars, bf, hpc, hin, buf, hk, hout, hcalls, hops >>

\* Lines 33-36: the words are written out and bcrypt_hash returns.
HashWrite ==
    /\ hpc = "encrypt"
    /\ ~(hi < BufWords)
    /\ hout' = WriteWords(buf)
    /\ hpc' = "done"
    /\ UNCHANGED << driverVars, bf, hin, buf, hk, hi, hj, hcalls, hops >>

NextHash ==
    \/ HashCall \/ HashExpandFirst \/ HashExpandSecond \/ HashLoadMagic
    \/ HashEncrypt \/ HashNextPair \/ HashWrite

SpecHash == Init /\ [][NextHash]_vars

(* ------------------------------ claims -------------------------------- *)

Done == pc = "done"

\* The documented preconditions of bcrypt_pbkdf.
Pre ==
    /\ password # << >>
    /\ salt # << >>
    /\ rounds >= 1
    /\ Len(output) \in 1..MaxOutputLen

\* ceil(len / 32), by its defining property.
CeilBlocks(len) == CHOOSE n \in 0..len : 32 * n >= len /\ 32 * n < len + 32

\* Bit j of byte a.
Bit(a, j) == (a \div (2 ^ j)) % 2

\* Bit j of the XOR of byte i of every sequence of outs.
ParityBit(outs, i, j) == Cardinality({r \in DOMAIN outs : Bit(outs[r][i], j) = 1}) % 2

\* Byte i of the byte-wise XOR of every sequence of outs.
XorAllByte(outs, i) ==
    ParityBit(outs, i, 0) + 2 * ParityBit(outs, i, 1) + 4 * ParityBit(outs, i, 2)
    + 8 * ParityBit(outs, i, 3) + 16 * ParityBit(outs, i, 4) + 32 * ParityBit(outs, i, 5)
    + 64 * ParityBit(outs, i, 6) + 128 * ParityBit(outs, i, 7)

\* The 4 big-endian bytes of a block index below 65536.
BE32(b) == << 0, 0, b \div 256, b % 256 >>

\* C1: a call with an empty password, an empty salt, rounds = 0 or an output
\* length outside 1..1024 fails with InvalidArgument before any digest or
\* cipher computation, and leaves the output buffer as it was.
C1_RejectsInvalid ==
    (pc # "idle" /\ ~Pre) =>
        /\ nDigest = 0 /\ nHash = 0
        /\ output = output0
        /\ (Done => ret = "InvalidArgument")

\* The offsets the scatters of all blocks write in a buffer of len bytes.
AllOffsets(len) ==
    UNION {ScatterOffsets(len, NBlocks(len), b) :
              b \in {c \in 1..(len + 1) : BlocksLeft(c, NBlocks(len))}}

\* For every length 1..1024 the scatters of the blocks write, between them,
\* every offset of the buffer and no other.
AllLengthsCovered == \A len \in 1..MaxOutputLen : AllOffsets(len) = 0..(len - 1)

\* C2: with valid arguments and rounds >= 2, when bcrypt_pbkdf returns every
\* offset 0..length-1 of the output buffer has been written by the scatter
\* (and the offsets the scatters write cover every length up to 1024).
C2_FullyWritten ==
    /\ AllLengthsCovered
    /\ (Done /\ Pre /\ rounds >= 2) => \A k \in 0..(Len(output) - 1) : k \in written

C2_Witness ==
    /\ Done /\ Pre /\ rounds = 2
    /\ Len(output) = MaxOutputLen
    /\ written = 0..(MaxOutputLen - 1)

\* C3: with valid arguments and rounds >= 2, when bcrypt_pbkdf returns
\* output[i*blockCount + (b-1)] is byte i of the XOR of the bcrypt_hash
\* outputs of all rounds of block b, for every block b and every i in 0..31
\* whose offset is below the length; and no write is ever made at an offset
\* at or beyond the length.
C3_Layout ==
    /\ \A k \in written : k < Len(output)
    /\ (Done /\ Pre /\ rounds >= 2) =>
          LET nb == CeilBlocks(Len(output))
          IN  /\ Len(hashOuts) = nb
              /\ \A b \in 1..nb :
                    /\ Len(hashOuts[b]) = rounds
                    /\ \A i \in 0..31 :
                          (i * nb + (b - 1) < Len(output)) =>
                              output[i * nb + (b - 1) + 1] = XorAllByte(hashOuts[b], i + 1)

C3_Witness ==
    /\ Done /\ Pre /\ rounds = 3
    /\ Len(output) = 33
    /\ output[2] = XorAllByte(hashOuts[2], 1)
    /\ output[3] = XorAllByte(hashOuts[1], 2)

\* C4: with rounds = 1 the scatter never executes: the output buffer holds,
\* at every point of the call and on return, what it held when passed in.
C4_RoundsOneWritesNothing ==
    (pc # "idle" /\ rounds = 1) => (written = {} /\ output = output0)

C4_Witness ==
    /\ Done /\ rounds = 1
    /\ Len(output) = 33
    /\ nHash = 2
    /\ output = output0

\* C5: two calls with the same valid arguments leave the same bytes in their
\* output buffers, whatever the buffers held before.
C5_Deterministic ==
    (Done /\ Pre /\ prevOutput # NoOutput) => output = prevOutput

\* C8: the salt digest of round 1 of block b absorbs salt || BE32(b), that of
\* each later round absorbs the 32 bytes the previous round's bcrypt_hash
\* call of the same block produced, nothing else; and the digest of exactly
\* those bytes is the hsalt passed to bcrypt_hash.
C8_SaltDigests ==
    \A b \in 1..Len(saltIn) :
        /\ saltIn[b][1] = salt \o BE32(b)
        /\ \A r \in 2..Len(saltIn[b]) : saltIn[b][r] = hashOuts[b][r - 1]
        /\ (b = Len(saltIn)) =>
              /\ lastRun[2] = DigestOf(saltIn[b][Len(saltIn[b])])
              /\ hsalt = lastRun[2]

C8_Witness ==
    /\ Done /\ Pre /\ rounds = 3
    /\ Len(saltIn) = 2
    /\ Len(saltIn[2]) = 3
    /\ saltIn[2][3] = hashOuts[2][2]
    /\ hashOuts[2][2] # out

\* C9 (counts): when a call with rounds >= 1 and a length in 1..1024 has
\* returned, the round loop's body ran rounds - 1 times in each of the
\* ceil(length/32) blocks, bcrypt_hash was called blockCount * rounds times,
\* and the password was digested once, that digest being the hpass of every
\* bcrypt_hash call.
C9_Counts ==
    (Done /\ rounds >= 1 /\ Len(output) \in 1..MaxOutputLen) =>
        LET nb == CeilBlocks(Len(output))
        IN  /\ bodyRuns = [b \in 1..nb |-> rounds - 1]
            /\ nHash = nb * rounds
            /\ nPassDigest = 1
            /\ passArgs = {DigestOf(password)}

\* C9: every call of bcrypt_pbkdf terminates, and has then made exactly the
\* calls C9_Counts states.
C9_TerminatesWithCounts ==
    /\ []C9_Counts
    /\ ((pc \in {"blocks", "rounds"}) ~> Done)

C9_Witness ==
    /\ Done /\ rounds = 3
    /\ Len(output) = 33
    /\ nHash = 6
    /\ bodyRuns = << 2, 2 >>

\* C10: when bcrypt_pbkdf returns, hpass, hsalt, tmp and the cipher state no
\* longer hold the values they were last assigned.
C10_Cleared ==
    (Done /\ Pre) =>
        /\ hpass # lastRun[1]
        /\ hsalt # lastRun[2]
        /\ tmp # lastRun[3]
        /\ bf # lastRun[4]

\* The cipher operations of one bcrypt_hash call up to the first encryption:
\* the new state, one salted expansion, then 64 times (hsalt, hpass).
KeySchedule ==
    [k \in 1..130 |->
        IF k = 1 THEN "init_state"
        ELSE IF k = 2 THEN "salted_expand_key(hsalt, hpass)"
        ELSE IF k % 2 = 1 THEN "expand_key(hsalt)"
        ELSE "expand_key(hpass)"]

\* C7: in every bcrypt_hash call the cipher state is made from the default
\* constants, gets one salted key expansion, then 64 times an expansion with
\* hsalt followed by one with hpass (128 expansions), all before the first
\* encryption; the call's output is that of a state no earlier call touched.
C7_KeySchedule ==
    /\ \A k \in 1..Len(hops) :
          IF k <= 130 THEN hops[k] = KeySchedule[k] ELSE hops[k] = "encrypt"
    /\ (hpc = "encrypt" \/ hpc = "done") => Len(hops) >= 130
    /\ (hpc = "done") =>
          hout = bcrypt_hash(hin[1], hin[2])

C7_Witness ==
    /\ hpc = "done"
    /\ hcalls = 2
    /\ Len(hops) > 130
    /\ hops[131] = "encrypt"

=============================================================================
